---------------------------- MODULE Spec2Model ----------------------------
(***************************************************************************)
(* sqc: the completion engine of the interactive SQL shell.                *)
(*                                                                         *)
(* Strings are sequences of UTF-8 bytes (naturals 0..255), so that byte    *)
(* lengths, byte offsets, ASCII case folding and char boundaries are what  *)
(* they are in the Rust code.  A syntax tree is a sequence of nodes in     *)
(* document (pre-)order; a node is [kind, start, end, parent] with parent  *)
(* the index of its parent node (0: none).                                 *)
(***************************************************************************)
EXTENDS Naturals, Integers, Sequences, FiniteSets, TLC

(***************************************************************************)
(* Bounds of the model.                                                    *)
(***************************************************************************)
\* trailing spaces typed after the last token of a line
MaxPad == 4
\* how far left of the end of the line the cursor is moved (Home goes to 0)
MaxBack == 6
\* tables in the database at one time
MaxTables == 2
\* common table expressions in the WITH clause of the statement being typed
MaxCtes == 2

(***************************************************************************)
(* Bytes and strings.                                                      *)
(***************************************************************************)
Min(S) == CHOOSE x \in S : \A y \in S : x <= y

Max(S) == CHOOSE x \in S : \A y \in S : y <= x

\* u8::to_ascii_lowercase
to_ascii_lowercase_byte(b) == IF b >= 65 /\ b <= 90 THEN b + 32 ELSE b

\* str::to_ascii_lowercase
to_ascii_lowercase(s) == [i \in 1..Len(s) |-> to_ascii_lowercase_byte(s[i])]

\* str::eq_ignore_ascii_case
eq_ignore_ascii_case(a, b) ==
    /\ Len(a) = Len(b)
    /\ \A i \in 1..Len(a) : to_ascii_lowercase_byte(a[i]) = to_ascii_lowercase_byte(b[i])

\* str::is_char_boundary: index i (0-based) of s starts a character or is the end
is_char_boundary(s, i) ==
    \/ i = 0
    \/ i = Len(s)
    \/ i < Len(s) /\ (s[i + 1] < 128 \/ s[i + 1] >= 192)

\* memcmp order of two byte strings (SQLite's BINARY collation)
RECURSIVE BytesLess(_, _)
BytesLess(a, b) ==
    IF b = <<>> THEN FALSE
    ELSE IF a = <<>> THEN TRUE
    ELSE IF a[1] # b[1] THEN a[1] < b[1]
    ELSE BytesLess(Tail(a), Tail(b))

\* the members of a set of byte strings in ascending order
RECURSIVE SortedSeq(_)
SortedSeq(S) ==
    IF S = {} THEN <<>>
    ELSE LET least == CHOOSE x \in S : \A y \in S \ {x} : BytesLess(x, y)
         IN  <<least>> \o SortedSeq(S \ {least})

\* the sequences that list every member of S exactly once
Perms(S) == { q \in [1..Cardinality(S) -> S] : \A x \in S : \E i \in DOMAIN q : q[i] = x }

Spaces(n) == [i \in 1..n |-> 32]

\* function f written out as the table of its values: TLC keeps a function
\* [x \in S |-> e] as a rule and computes e again each time it is applied
Tabulated(f) == <<>> @@ f

(***************************************************************************)
(* completions.rs: the fixed keyword list and the string helpers.          *)
(***************************************************************************)
INITIAL_KEYWORDS ==
    << <<83, 69, 76, 69, 67, 84>>,          \* SELECT
       <<68, 69, 76, 69, 84, 69>>,          \* DELETE
       <<67, 82, 69, 65, 84, 69>>,          \* CREATE
       <<68, 82, 79, 80>>,                  \* DROP
       <<65, 84, 84, 65, 67, 72>>,          \* ATTACH
       <<68, 69, 84, 65, 67, 72>>,          \* DETACH
       <<69, 88, 80, 76, 65, 73, 78>>,      \* EXPLAIN
       <<80, 82, 65, 71, 77, 65>>,          \* PRAGMA
       <<87, 73, 84, 72>>,                  \* WITH
       <<85, 80, 68, 65, 84, 69>>,          \* UPDATE
       <<65, 76, 84, 69, 82>>,              \* ALTER
       <<66, 69, 71, 73, 78>>,              \* BEGIN
       <<69, 78, 68>>,                      \* END
       <<67, 79, 77, 77, 73, 84>>,          \* COMMIT
       <<82, 79, 76, 76, 66, 65, 67, 75>> >> \* ROLLBACK

\* input.rs: the table names the first version of the engine completes from
TEST_TABLE_NAMES ==
    << <<95, 115, 113, 108, 120, 95, 109, 105, 103, 114, 97, 116, 105, 111, 110, 115>>,
       <<97, 112, 105, 95, 107, 101, 121, 115>>,
       <<100, 111, 119, 110, 108, 111, 97, 100, 101, 100, 95, 105, 109, 97, 103, 101, 115>>,
       <<106, 111, 98, 95, 113, 117, 101, 117, 101>>,
       <<106, 111, 98, 95, 113, 117, 101, 117, 101, 95, 111, 108, 100>>,
       <<108, 97, 115, 116, 102, 109, 95, 105, 109, 112, 111, 114, 116, 95, 106, 111, 98, 115>>,
       <<108, 105, 115, 116, 101, 110, 115>>,
       <<114, 97, 119, 95, 116, 114, 97, 99, 107, 115>>,
       <<115, 99, 114, 111, 98, 98, 108, 101, 115>>,
       <<115, 113, 108, 105, 116, 101, 95, 115, 101, 113, 117, 101, 110, 99, 101>>,
       <<116, 114, 97, 99, 107, 115>>,
       <<117, 115, 101, 114, 115>> >>

\* item[..input.len()] panics when input.len() is inside a character of item
starts_with_panics(item, input) ==
    Len(input) <= Len(item) /\ ~is_char_boundary(item, Len(input))

\* starts_with without the length guard: compares as far as both strings go
starts_with_zip(item, input) ==
    \A i \in 1..Min({Len(item), Len(input)}) :
        to_ascii_lowercase_byte(item[i]) = to_ascii_lowercase_byte(input[i])

\* fn starts_with(item, input) -> bool, where it does not panic
starts_with(item, input) ==
    Len(input) <= Len(item) /\ eq_ignore_ascii_case(SubSeq(item, 1, Len(input)), input)

\* input.chars().all(|c| c.is_ascii_lowercase()): a byte of a multi-byte
\* character is >= 128, so no such character passes
all_ascii_lowercase(input) == \A i \in 1..Len(input) : input[i] >= 97 /\ input[i] <= 122

\* match_case that lowercases as soon as one typed character is lowercase
match_case_any(item, input) ==
    IF \E i \in 1..Len(input) : input[i] >= 97 /\ input[i] <= 122
    THEN to_ascii_lowercase(item) ELSE item

\* fn match_case(item, input)
match_case(item, input) ==
    IF all_ascii_lowercase(input) THEN to_ascii_lowercase(item) ELSE item

\* format!("{} ", item)
with_space(item) == item \o <<32>>

(***************************************************************************)
(* The lines the user types.  A line is one statement, optionally after a  *)
(* complete first statement and a ';', and followed by trailing spaces.    *)
(* A statement is either text the grammar cannot start a statement with    *)
(* (form "error") or                                                       *)
(*     [WITH c1 AS (SELECT 1), c2 AS (SELECT 1) ]SELECT * FROM table[ alias]*)
(* (form "select", ctes the number of common table expressions).           *)
(***************************************************************************)
\* names of the common table expressions of the statement being typed, in order
CteNames == << <<117, 115>>, <<117>>, <<117, 99>>, <<117, 100>> >>   \* us, u, uc, ud

\* what is typed where a statement should start
ErrTexts ==
    { <<>>,                                 \* nothing yet
      <<83, 69, 76>>,                       \* SEL
      <<115, 101, 108>>,                    \* sel
      <<83, 101, 108>>,                     \* Sel
      <<100, 101>>,                         \* de
      <<100>>,                              \* d
      <<101, 110>>,                         \* en
      <<83, 69, 76, 69, 67, 84, 69, 68>> }  \* SELECTED

\* what is typed as the table of the FROM clause
TableTexts == { <<117>>, <<85>> }           \* u, U

\* what is typed as its alias (<<>>: no alias)
AliasTexts == { <<>>, <<117, 97>> }         \* ua

\* the names a table of the database can have
TableNames == { <<117>>, <<117, 97>>, <<195, 188>> }   \* u, ua, u-umlaut (2 bytes)

ErrStmt(text) ==
    [form |-> "error", text |-> text, ctes |-> <<>>, table |-> <<>>, alias |-> <<>>]

SelStmt(ctes, table, alias) ==
    [form |-> "select", text |-> <<>>, ctes |-> ctes, table |-> table, alias |-> alias]

\* the complete statement before the ';':  WITH ub AS (SELECT 1) SELECT * FROM t ux
FirstStmt == SelStmt(<< <<117, 98>> >>, <<116>>, <<117, 120>>)

LastStmts ==
    { ErrStmt(t) : t \in ErrTexts }
    \cup { SelStmt(SubSeq(CteNames, 1, k), t, a) :
             k \in 0..MaxCtes, t \in TableTexts, a \in AliasTexts }

\* the trailing spaces of a line: none, or MaxPad of them
Pads == {0, MaxPad}

Lines == [first : BOOLEAN, last : LastStmts, pad : Pads]

\* name AS (SELECT 1)
CteText(name) == name \o <<32, 65, 83, 32, 40, 83, 69, 76, 69, 67, 84, 32, 49, 41>>

\* c1 AS (SELECT 1), c2 AS (SELECT 1)
RECURSIVE CteListText(_)
CteListText(names) ==
    IF names = <<>> THEN <<>>
    ELSE IF Len(names) = 1 THEN CteText(names[1])
    ELSE CteText(names[1]) \o <<44, 32>> \o CteListText(Tail(names))

\* WITH c1 AS (SELECT 1), c2 AS (SELECT 1)
WithText(names) == <<87, 73, 84, 72, 32>> \o CteListText(names)

\* SELECT * FROM table[ alias]
CoreText(table, alias) ==
    <<83, 69, 76, 69, 67, 84, 32, 42, 32, 70, 82, 79, 77, 32>> \o table
        \o (IF alias = <<>> THEN <<>> ELSE <<32>> \o alias)

StmtText(s) ==
    IF s.form = "error" THEN s.text
    ELSE (IF s.ctes = <<>> THEN <<>> ELSE WithText(s.ctes) \o <<32>>)
             \o CoreText(s.table, s.alias)

\* the source text of a line
Source(l) ==
    (IF l.first THEN StmtText(FirstStmt) \o <<59>> ELSE <<>>)
        \o StmtText(l.last) \o Spaces(l.pad)

(***************************************************************************)
(* The syntax trees tree-sitter's SQLite grammar returns for these lines.  *)
(***************************************************************************)
Node(kind, start, end, parent) ==
    [kind |-> kind, start |-> start, end |-> end, parent |-> parent]

\* the nodes of a subtree moved by `bytes` bytes and `idx` places; its root
\* (parent 0) is hung under node `under`
Shift(nodes, bytes, idx, under) ==
    [i \in 1..Len(nodes) |->
        Node(nodes[i].kind, nodes[i].start + bytes, nodes[i].end + bytes,
             IF nodes[i].parent = 0 THEN under ELSE nodes[i].parent + idx)]

\* tree `base` with subtree `sub` added at byte `at` as the last child of `under`
Attach(base, sub, at, under) == base \o Shift(sub, at, Len(base), under)

\* (common_table_expression (identifier) (AS) "(" (select_stmt (SELECT)
\*     (result_column (numeric_literal))) ")")
CteNodes(name) ==
    LET n == Len(name) IN
    << Node("common_table_expression", 0, n + 14, 0),
       Node("identifier", 0, n, 1),
       Node("AS", n + 1, n + 3, 1),
       Node("(", n + 4, n + 5, 1),
       Node("select_stmt", n + 5, n + 13, 1),
       Node("SELECT", n + 5, n + 11, 5),
       Node("result_column", n + 12, n + 13, 5),
       Node("numeric_literal", n + 12, n + 13, 7),
       Node(")", n + 13, n + 14, 1) >>

\* the common table expressions names[k..], the first at byte `at`, added to
\* the with_clause that is node 1 of `acc`
RECURSIVE AddCtes(_, _, _, _)
AddCtes(acc, names, k, at) ==
    IF k > Len(names) THEN acc
    ELSE LET cte   == Attach(acc, CteNodes(names[k]), at, 1)
             after == at + Len(CteText(names[k]))
         IN  IF k = Len(names) THEN cte
             ELSE AddCtes(cte \o <<Node(",", after, after + 1, 1)>>, names, k + 1, after + 2)

\* (with_clause (WITH) (common_table_expression ...) "," ...)
WithNodes(names) ==
    AddCtes(<< Node("with_clause", 0, Len(WithText(names)), 0), Node("WITH", 0, 4, 1) >>,
            names, 1, 5)

\* (SELECT) (result_column "*") (from_clause (FROM) (join_clause
\*     (table_or_subquery (identifier) (identifier)?))), children of node `under`
CoreNodes(table, alias, under) ==
    LET e  == Len(CoreText(table, alias))
        te == 14 + Len(table)
    IN  << Node("SELECT", 0, 6, under),
           Node("result_column", 7, 8, under),
           Node("*", 7, 8, 2),
           Node("from_clause", 9, e, under),
           Node("FROM", 9, 13, 4),
           Node("join_clause", 14, e, 4),
           Node("table_or_subquery", 14, e, 6),
           Node("identifier", 14, te, 7) >>
        \o (IF alias = <<>> THEN <<>> ELSE <<Node("identifier", te + 1, e, 7)>>)

\* the subtree of one statement, in its own coordinates
StmtNodes(s) ==
    IF s.form = "error"
    THEN (IF s.text = <<>> THEN <<>> ELSE <<Node("ERROR", 0, Len(s.text), 0)>>)
    ELSE LET e    == Len(StmtText(s))
             head == << Node("sql_stmt", 0, e, 0), Node("select_stmt", 0, e, 1) >>
             with == IF s.ctes = <<>> THEN head ELSE Attach(head, WithNodes(s.ctes), 0, 2)
             at   == IF s.ctes = <<>> THEN 0 ELSE Len(WithText(s.ctes)) + 1
             core == CoreNodes(s.table, s.alias, 0)
         IN  with \o [i \in 1..Len(core) |->
                        Node(core[i].kind, core[i].start + at, core[i].end + at,
                             IF core[i].parent = 0 THEN 2 ELSE core[i].parent + Len(with))]

\* the tree of a line: (sql_stmt_list stmt? ";"? stmt)
Tree(l) ==
    LET f    == Len(StmtText(FirstStmt))
        at   == IF l.first THEN f + 1 ELSE 0
        root == <<Node("sql_stmt_list", 0, at + Len(StmtText(l.last)), 0)>>
        one  == IF l.first
                THEN Attach(root, StmtNodes(FirstStmt), 0, 1) \o <<Node(";", f, f + 1, 1)>>
                ELSE root
    IN  Attach(one, StmtNodes(l.last), at, 1)

(***************************************************************************)
(* tree_sitter::Node navigation.                                           *)
(***************************************************************************)
\* the children of node n, in order
Children(T, n) == { i \in 1..Len(T) : T[i].parent = n }

\* Node::parent (0: None)
parent(T, n) == T[n].parent

\* a prev_sibling that never reports a sibling
prev_sibling_none(T, n) == 0

\* Node::prev_sibling (0: None)
prev_sibling(T, n) ==
    LET before == { i \in Children(T, T[n].parent) : i < n }
    IN  IF T[n].parent = 0 \/ before = {} THEN 0 ELSE Max(before)

\* Node::descendant_for_byte_range(p, p) from node n: go down into the first
\* child that ends after p, as long as that child starts at or before p
RECURSIVE descendant_for_byte_range(_, _, _)
descendant_for_byte_range(T, n, p) ==
    LET ending == { c \in Children(T, n) : T[c].end > p }
    IN  IF ending = {} THEN n
        ELSE LET c == Min(ending)
             IN  IF p < T[c].start THEN n ELSE descendant_for_byte_range(T, c, p)

\* &source[node.byte_range()]
node_text(src, T, n) == SubSeq(src, T[n].start + 1, T[n].end)

(***************************************************************************)
(* completions.rs: Completions.                                            *)
(***************************************************************************)
\* the members of a set of naturals in ascending order
RECURSIVE Ascending(_)
Ascending(S) == IF S = {} THEN <<>> ELSE <<Min(S)>> \o Ascending(S \ {Min(S)})

\* HashMap::insert
Insert(map, key, value) ==
    [k \in DOMAIN map \cup {key} |-> IF k = key THEN value ELSE map[k]]

\* the matches of pattern 0 of the query, in document order:
\*   (with_clause (WITH) (common_table_expression (identifier) @cte-name (AS)
\*       (select_stmt) @cte)) @whole-cte
\* each match is [whole, name, cte]: captures 0, 1 and 2
CteMatches(T) ==
    LET Under(n, kind) == { c \in Children(T, n) : T[c].kind = kind }
        ctes == { c \in 1..Len(T) :
                    /\ T[c].kind = "common_table_expression"
                    /\ T[c].parent # 0
                    /\ T[T[c].parent].kind = "with_clause"
                    /\ \E w \in Under(T[c].parent, "WITH") : w < c
                    /\ \E i \in Under(c, "identifier"), a \in Under(c, "AS"),
                          b \in Under(c, "select_stmt") : i < a /\ a < b }
        order == Ascending(ctes)
    IN  [k \in 1..Len(order) |->
            [whole |-> T[order[k]].parent,
             name  |-> Min(Under(order[k], "identifier")),
             cte   |-> Min(Under(order[k], "select_stmt"))]]

\* matches that take every table reference, its table standing for the alias
\* too where it has none
AliasMatchesUnaliased(T) ==
    LET refs == Ascending({ t \in 1..Len(T) : T[t].kind = "table_or_subquery" })
        ids(t) == { c \in Children(T, t) : T[c].kind = "identifier" }
    IN  [k \in 1..Len(refs) |-> [table |-> Min(ids(refs[k])), alias |-> Max(ids(refs[k]))]]

\* the matches of pattern 1, in document order:
\*   (table_or_subquery (identifier) @table (identifier) @table-alias)
AliasMatches(T) ==
    LET refs == { t \in 1..Len(T) : T[t].kind = "table_or_subquery" }
        ids(t) == { c \in Children(T, t) : T[c].kind = "identifier" }
        pairs == UNION { { <<i, j>> : i \in { x \in ids(t) : x < j } } :
                           <<t, j>> \in UNION { {t} \X ids(t) : t \in refs } }
        key(pr) == pr[1] * (Len(T) + 1) + pr[2]
        order == Ascending({ key(pr) : pr \in pairs })
    IN  [k \in 1..Len(order) |->
            LET pr == CHOOSE q \in pairs : key(q) = order[k]
            IN  [table |-> pr[1], alias |-> pr[2]]]

\* how often the keyword WITH occurs in a statement
CountWith(sql) ==
    Cardinality({ i \in 1..Len(sql) :
                    i + 3 <= Len(sql) /\ SubSeq(sql, i, i + 3) = <<87, 73, 84, 72>> })

\* Connection::prepare(sql) followed by Statement::column_names, for the trial
\* fragments of these lines: SQLite plans "SELECT 1" after at most one WITH
\* clause (the only result column is named "1") and rejects a second WITH
prepare_column_names(sql) == IF CountWith(sql) <= 1 THEN << <<49>> >> ELSE <<>>

\* the loop over the matches of pattern 0 if a failed prepare ended it
RECURSIVE parse_ctes_abort(_, _, _, _, _, _)
parse_ctes_abort(src, T, ms, k, ctes, cte_prefix) ==
    IF k > Len(ms) THEN ctes
    ELSE LET whole == node_text(src, T, ms[k].whole)
             expr  == node_text(src, T, ms[k].cte)
             column_names == prepare_column_names(cte_prefix \o <<32>> \o expr)
             sep == IF cte_prefix # <<>> THEN <<44, 32>> ELSE <<>>
         IN  IF column_names = <<>> THEN ctes
             ELSE parse_ctes_abort(src, T, ms, k + 1,
                                   Insert(ctes, node_text(src, T, ms[k].name), column_names),
                                   cte_prefix \o sep \o whole)

\* the loop of parse_names over the matches of pattern 0, from match k on
RECURSIVE parse_ctes(_, _, _, _, _, _)
parse_ctes(src, T, ms, k, ctes, cte_prefix) ==
    IF k > Len(ms) THEN ctes
    ELSE LET whole == node_text(src, T, ms[k].whole)
             expr  == node_text(src, T, ms[k].cte)
             column_names == prepare_column_names(cte_prefix \o <<32>> \o expr)
             sep == IF cte_prefix # <<>> THEN <<44, 32>> ELSE <<>>
         IN  parse_ctes(src, T, ms, k + 1,
                        Insert(ctes, node_text(src, T, ms[k].name), column_names),
                        cte_prefix \o sep \o whole)

\* the value of cte_prefix when the loop of parse_names reaches match k
RECURSIVE cte_prefix_at(_, _, _, _)
cte_prefix_at(src, T, ms, k) ==
    IF k = 1 THEN <<>>
    ELSE LET before == cte_prefix_at(src, T, ms, k - 1)
             sep    == IF before # <<>> THEN <<44, 32>> ELSE <<>>
         IN  before \o sep \o node_text(src, T, ms[k - 1].whole)

\* format!("{} {}", cte_prefix, expr) for match k: what is handed to prepare
trial_fragment(src, T, ms, k) ==
    cte_prefix_at(src, T, ms, k) \o <<32>> \o node_text(src, T, ms[k].cte)

\* the fragments one call of parse_names hands to prepare, in order
trial_fragments(src, T) ==
    LET ms == CteMatches(T)
    IN  [k \in 1..Len(ms) |-> trial_fragment(src, T, ms, k)]

\* the loop of parse_names over the matches of pattern 1, from match k on
RECURSIVE parse_aliases(_, _, _, _, _)
parse_aliases(src, T, ms, k, table_aliases) ==
    IF k > Len(ms) THEN table_aliases
    ELSE parse_aliases(src, T, ms, k + 1,
                       Insert(table_aliases, node_text(src, T, ms[k].alias),
                              node_text(src, T, ms[k].table)))

\* fn parse_names(&self, tree) -> QueryNames: the query runs on the root node
parse_names(src, T) ==
    [ctes          |-> parse_ctes(src, T, CteMatches(T), 1, <<>>, <<>>),
     table_aliases |-> parse_aliases(src, T, AliasMatches(T), 1, <<>>)]

\* what Connection::prepare(sql) does to the tables of the database: the
\* statement is compiled and not run, the tables are as before
prepare(db, sql) == db

\* the tables of the database after parse_names has prepared fragments[k..]
RECURSIVE prepare_all(_, _, _)
prepare_all(db, fragments, k) ==
    IF k > Len(fragments) THEN db
    ELSE prepare_all(prepare(db, fragments[k]), fragments, k + 1)

\* a call on the connection, or on a statement prepared from it
ConnCall(method, sql) == [method |-> method, sql |-> sql]

\* the methods of rusqlite that run a prepared statement
StepMethods == {"execute", "query", "query_map", "query_row", "exists", "insert"}

\* a turn of the loop that also runs the statement it prepared
trial_calls_stepped(sql) ==
    <<ConnCall("prepare", sql)>>
    \o (IF prepare_column_names(sql) # <<>>
        THEN <<ConnCall("column_names", sql), ConnCall("query", sql)>>
        ELSE <<>>)

\* the calls of one turn of the loop of parse_names over the matches of
\* pattern 0: the fragment is prepared; if that is Ok the column names of the
\* statement are read, and the statement is dropped
trial_calls(sql) ==
    <<ConnCall("prepare", sql)>>
    \o (IF prepare_column_names(sql) # <<>> THEN <<ConnCall("column_names", sql)>> ELSE <<>>)

\* the calls parse_names makes for fragments[k..], in order
RECURSIVE parse_names_calls(_, _)
parse_names_calls(fragments, k) ==
    IF k > Len(fragments) THEN <<>>
    ELSE trial_calls(fragments[k]) \o parse_names_calls(fragments, k + 1)

\* SELECT name FROM sqlite_schema WHERE type = 'table' ORDER BY name ASC
SchemaQuery ==
    <<83, 69, 76, 69, 67, 84, 32, 110, 97, 109, 101, 32, 70, 82, 79, 77, 32, 115, 113, 108,
      105, 116, 101, 95, 115, 99, 104, 101, 109, 97, 32, 87, 72, 69, 82, 69, 32, 116, 121,
      112, 101, 32, 61, 32, 39, 116, 97, 98, 108, 101, 39, 32, 79, 82, 68, 69, 82, 32, 66,
      89, 32, 110, 97, 109, 101, 32, 65, 83, 67>>

\* the calls of get_table_names: the query on sqlite_schema is prepared and,
\* if that is Ok (cached_ok), run by query_map
get_table_names_calls(cached_ok) ==
    <<ConnCall("prepare_cached", SchemaQuery)>>
    \o (IF cached_ok THEN <<ConnCall("query_map", SchemaQuery)>> ELSE <<>>)

\* a table list read once, when the shell started with an empty database
get_table_names_cached(tables) == <<>>

\* fn get_table_names(&self): SELECT name FROM sqlite_schema ... ORDER BY name ASC
get_table_names(tables) == SortedSeq(tables)

MAX_LOOKBEHIND == 5

\* the node (0..max_lookbehind).find_map(...) returns (0: None)
relevant_node(T, pos) ==
    LET max_lookbehind == Min({MAX_LOOKBEHIND, pos})
        found == { offset \in 0..(max_lookbehind - 1) :
                     T[descendant_for_byte_range(T, 1, pos - offset)].kind # "sql_stmt_list" }
    IN  IF found = {} THEN 0 ELSE descendant_for_byte_range(T, 1, pos - Min(found))

\* what a call returned (status "ok") or that it panicked (status "panic");
\* node is the context node (0: none), failure what made it panic
Returned(fn, list, node) ==
    [fn |-> fn, status |-> "ok", list |-> list, node |-> node, failure |-> "none"]

Panicked(fn, failure, node) ==
    [fn |-> fn, status |-> "panic", list |-> <<>>, node |-> node, failure |-> failure]

\* no request was made since the line, the cursor or the database changed
NoOut == [fn |-> "none", status |-> "none", list |-> <<>>, node |-> 0, failure |-> "none"]

\* node.end_byte() in place of node.start_byte()
replace_from_end(T, node) == T[node].end

\* node.start_byte() of the context node
replace_from(T, node) == T[node].start

\* the keyword candidates: INITIAL_KEYWORDS filtered and rendered
keyword_candidates(content, from) ==
    LET pass == SelectSeq(INITIAL_KEYWORDS, LAMBDA item : starts_with(item, content))
    IN  [i \in 1..Len(pass) |-> <<from, with_space(match_case(pass[i], content))>>]

\* the chain without the alias names
table_chain_no_aliases(table_names, cte_names, alias_names) == table_names \o cte_names

\* the chain get_table_names().chain(cte_names).chain(alias_names)
table_chain(table_names, cte_names, alias_names) == table_names \o cte_names \o alias_names

\* the table candidates: the chain filtered and rendered
table_candidates(chain, content, from) ==
    LET pass == SelectSeq(chain, LAMBDA item : starts_with(item, content))
    IN  [i \in 1..Len(pass) |-> <<from, with_space(pass[i])>>]

\* lines 120..164 of get_completions: the candidates for context node `node`
\* (0: None).  db_ok: the statement on sqlite_schema could be prepared and run;
\* tables: the tables of the database; cte_names, alias_names: the keys of the
\* two HashMaps in the order this call iterates them
classify(src, T, node, db_ok, tables, cte_names, alias_names) ==
    IF node = 0 THEN Returned("get_completions", <<>>, 0)
    ELSE
    LET content == node_text(src, T, node)
        up      == parent(T, node)
        prev    == prev_sibling(T, node)
    IN
    IF up # 0 /\ prev = 0 /\ T[node].kind = "ERROR" /\ T[up].kind = "sql_stmt_list"
    THEN Returned("get_completions", keyword_candidates(content, replace_from(T, node)), node)
    ELSE IF up # 0 /\ prev = 0 /\ T[node].kind = "identifier"
                /\ T[up].kind = "table_or_subquery"
    THEN IF ~db_ok THEN Panicked("get_completions", "catalog", node)
         ELSE LET chain == table_chain(get_table_names(tables), cte_names, alias_names)
              IN  IF \E i \in 1..Len(chain) : starts_with_panics(chain[i], content)
                  THEN Panicked("get_completions", "slice", node)
                  ELSE Returned("get_completions",
                                table_candidates(chain, content, replace_from(T, node)), node)
    ELSE Returned("get_completions", <<>>, node)

\* the arm of get_completions that calls get_table_names
calls_get_table_names(T, node) ==
    /\ node # 0
    /\ parent(T, node) # 0
    /\ prev_sibling(T, node) = 0
    /\ T[node].kind = "identifier"
    /\ T[parent(T, node)].kind = "table_or_subquery"

\* the calls get_completions makes on the connection, in order: none when
\* parse_sql fails, else those of parse_names (trials) and then, in the table
\* arm, those of get_table_names
get_completions_calls(T, node, parse_ok, cached_ok, trials) ==
    IF ~parse_ok THEN <<>>
    ELSE trials \o (IF calls_get_table_names(T, node)
                    THEN get_table_names_calls(cached_ok) ELSE <<>>)

\* get_completions given the value `node` of relevant_node (lines 107..118).
\* parse_ok: parse_sql returned Ok
get_completions_from(src, T, node, parse_ok, db_ok, tables, cte_names, alias_names) ==
    IF ~parse_ok THEN Panicked("get_completions", "parse", 0)
    ELSE classify(src, T, node, db_ok, tables, cte_names, alias_names)

\* pub fn get_completions(&self, sql, pos)
get_completions(src, T, pos, parse_ok, db_ok, tables, cte_names, alias_names) ==
    get_completions_from(src, T, relevant_node(T, pos), parse_ok, db_ok, tables,
                         cte_names, alias_names)

(***************************************************************************)
(* sql.rs: ParsedSql.                                                      *)
(***************************************************************************)
\* the members of a set of naturals in descending order
RECURSIVE Descending(_)
Descending(S) == IF S = {} THEN <<>> ELSE <<Max(S)>> \o Descending(S \ {Max(S)})

\* statements that lists the last statement first
statements_reversed(T) ==
    Descending({ n \in 1..Len(T) :
                   /\ T[n].kind = "sql_stmt"
                   /\ T[n].parent # 0
                   /\ T[T[n].parent].kind = "sql_stmt_list" })

\* pub fn statements(&self) -> Vec<Node>: the captures of the query
\*   (sql_stmt_list (sql_stmt) @stmt)
\* on the root node, in document order
statements(T) ==
    Ascending({ n \in 1..Len(T) :
                  /\ T[n].kind = "sql_stmt"
                  /\ T[n].parent # 0
                  /\ T[T[n].parent].kind = "sql_stmt_list" })

(***************************************************************************)
(* input.rs: the first version of the engine, behind EditorHelper's        *)
(* Completer and Hinter.                                                   *)
(***************************************************************************)
\* stands for 2^64 in usize arithmetic: TLC's integers end at 2^31 - 1, and a
\* wrapped position only has to lie beyond the end of every node
UsizeTop == 2^30

\* pos - offset in usize, as a build without overflow checks computes it
wrapping_sub(pos, offset) == IF offset <= pos THEN pos - offset ELSE UsizeTop - (offset - pos)

\* the node (0..5).find_map(...) returns (0: None), or -1 when pos - offset
\* overflows in a build with overflow checks (the offsets are tried in order)
input_relevant_node(T, pos, overflow_checks) ==
    LET at(offset) == descendant_for_byte_range(T, 1, wrapping_sub(pos, offset))
        found == { offset \in 0..(MAX_LOOKBEHIND - 1) : T[at(offset)].kind # "sql_stmt_list" }
        tried == IF found = {} THEN 0..(MAX_LOOKBEHIND - 1) ELSE 0..Min(found)
    IN  IF overflow_checks /\ \E offset \in tried : offset > pos THEN 0 - 1
        ELSE IF found = {} THEN 0
        ELSE at(Min(found))

\* the keyword candidates of input.rs: no case matching
input_keyword_candidates(content, from) ==
    LET pass == SelectSeq(INITIAL_KEYWORDS, LAMBDA item : starts_with(item, content))
    IN  [i \in 1..Len(pass) |-> <<from, with_space(pass[i])>>]

\* lines 48..85 of completions: the candidates for context node `node`
\* (0: None, -1: pos - offset overflowed)
input_classify(src, T, node) ==
    IF node < 0 THEN Panicked("completions", "overflow", 0)
    ELSE IF node = 0 THEN Returned("completions", <<>>, 0)
    ELSE
    LET content == node_text(src, T, node)
        up      == parent(T, node)
        prev    == prev_sibling(T, node)
    IN
    IF up # 0 /\ prev = 0 /\ T[node].kind = "ERROR" /\ T[up].kind = "sql_stmt_list"
    THEN Returned("completions",
                  input_keyword_candidates(content, replace_from(T, node)), node)
    ELSE IF up # 0 /\ prev = 0 /\ T[node].kind = "identifier"
                /\ T[up].kind = "table_or_subquery"
    THEN Returned("completions",
                  table_candidates(TEST_TABLE_NAMES, content, replace_from(T, node)), node)
    ELSE Returned("completions", <<>>, node)

\* fn completions(sql, pos).  parse_ok: parse_sql returned Ok; overflow_checks:
\* the build panics on integer overflow (it wraps otherwise)
completions(src, T, pos, parse_ok, overflow_checks) ==
    IF ~parse_ok THEN Panicked("completions", "parse", 0)
    ELSE input_classify(src, T, input_relevant_node(T, pos, overflow_checks))

\* String::split_off(at) panics when at is beyond the end of the string or
\* inside a character
split_off_panics(text, at) == at > Len(text) \/ ~is_char_boundary(text, at)

\* a split that returns the bytes before `at` in place of those from `at` on
split_off_head(text, at) == SubSeq(text, 1, at)

\* String::split_off(at): the bytes from `at` on
split_off(text, at) == SubSeq(text, at + 1, Len(text))

\* Hinter::hint(line, pos): the first candidate of completions without its
\* first pos - replace_from bytes (list <<>>: None; the hint is shown at pos)
hint(src, T, pos, parse_ok, overflow_checks) ==
    LET found == completions(src, T, pos, parse_ok, overflow_checks)
    IN  IF found.status = "panic" THEN Panicked("hint", found.failure, found.node)
        ELSE IF found.list = <<>> THEN Returned("hint", <<>>, found.node)
        ELSE LET item == found.list[1]
                 at   == pos - item[1]
             IN  \* pos - item.0 is a usize subtraction: below zero it panics
                 \* with overflow checks and wraps past every length without
                 IF item[1] > pos
                 THEN Panicked("hint", IF overflow_checks THEN "overflow" ELSE "split",
                               found.node)
                 ELSE IF split_off_panics(item[2], at)
                 THEN Panicked("hint", "split", found.node)
                 ELSE Returned("hint", << <<pos, split_off(item[2], at)>> >>, found.node)

(***************************************************************************)
(* The shell: the line being edited, the cursor in it, the tables of the   *)
(* database, and what the last completion request on this line returned.   *)
(***************************************************************************)
\* the source text, the syntax tree and the names of every line, computed once
SourceOf == Tabulated([l \in Lines |-> Source(l)])

TreeOf == Tabulated([l \in Lines |-> Tree(l)])

NamesOf == Tabulated([l \in Lines |-> parse_names(Source(l), Tree(l))])

FragmentsOf == Tabulated([l \in Lines |-> trial_fragments(Source(l), Tree(l))])

\* the calls parse_names makes on the connection for each line
TrialCallsOf == Tabulated([l \in Lines |-> parse_names_calls(FragmentsOf[l], 1)])

\* the orders in which a call can iterate the keys of the two HashMaps
KeyOrdersOf ==
    Tabulated([l \in Lines |-> [ctes          |-> Perms(DOMAIN NamesOf[l].ctes),
                                table_aliases |-> Perms(DOMAIN NamesOf[l].table_aliases)]])

\* where the cursor of a line can be: at its start or within MaxBack bytes of
\* its end
CursorsOf(l) == {0} \cup { pos \in 0..Len(Source(l)) : Len(Source(l)) - pos <= MaxBack }

\* relevant_node of get_completions for every cursor of every line
RelevantNodeOf ==
    Tabulated([l \in Lines |->
        Tabulated([pos \in CursorsOf(l) |-> relevant_node(TreeOf[l], pos)])])

\* what completions and hint do for every cursor of every line
CompletionsOf ==
    Tabulated([l \in Lines |-> Tabulated([pos \in CursorsOf(l) |->
        Tabulated([parse_ok \in BOOLEAN |-> Tabulated([overflow_checks \in BOOLEAN |->
            completions(SourceOf[l], TreeOf[l], pos, parse_ok, overflow_checks)])])])])

HintOf ==
    Tabulated([l \in Lines |-> Tabulated([pos \in CursorsOf(l) |->
        Tabulated([parse_ok \in BOOLEAN |-> Tabulated([overflow_checks \in BOOLEAN |->
            hint(SourceOf[l], TreeOf[l], pos, parse_ok, overflow_checks)])])])])

VARIABLES line, cursor, catalog, out, calls

\* the shell's loop (App::run): where it is, the lines handed to the editor's
\* history, what readline returned last, the request being executed, the
\* statements of it still to run, the statements run for it, the database
\* when it was read and now, and what the last App::execute returned
VARIABLES pc, history, readline, request, todo, ran, conn_before, conn, result

completion == <<line, cursor, catalog, out, calls>>

shell == <<pc, history, readline, request, todo, ran, conn_before, conn, result>>

vars == <<line, cursor, catalog, out, calls, pc, history, readline, request, todo, ran, conn_before,
          conn, result>>

\* no table in the database (Connection::open_in_memory)
EmptyDb == <<>>

\* App::run is about to read its first line
AppStarted ==
    /\ pc = "readline"
    /\ history = <<>>
    /\ readline = "none"
    /\ request = <<>>
    /\ todo = <<>>
    /\ ran = <<>>
    /\ conn_before = EmptyDb
    /\ conn = EmptyDb
    /\ result = "none"

\* a panic in a completion request ends the process
Alive == out.status # "panic"

Init ==
    /\ line \in { l \in Lines : ~l.first /\ l.pad = 0 }
    /\ cursor = Len(SourceOf[line])
    /\ catalog = {}
    /\ out = NoOut
    /\ calls = <<>>
    /\ AppStarted

\* typing at the end of the line: the user replaces the statement being
\* typed, adds or removes the first statement, or changes the trailing
\* spaces; the cursor stays at the end
Edit ==
    /\ Alive
    /\ cursor = Len(SourceOf[line])
    /\ \E l \in {[line EXCEPT !.first = ~line.first]}
                \cup { [line EXCEPT !.last = s] : s \in LastStmts \ {line.last} }
                \cup { [line EXCEPT !.pad = p] : p \in Pads \ {line.pad} } :
        /\ line' = l
        /\ cursor' = Len(SourceOf[l])
    /\ out' = NoOut
    /\ calls' = <<>>
    /\ UNCHANGED catalog
    /\ UNCHANGED shell

MoveLeft ==
    /\ Alive
    /\ cursor > 0
    /\ Len(SourceOf[line]) - cursor < MaxBack
    /\ cursor' = cursor - 1
    /\ out' = NoOut
    /\ calls' = <<>>
    /\ UNCHANGED <<line, catalog>>
    /\ UNCHANGED shell

MoveRight ==
    /\ Alive
    /\ cursor < Len(SourceOf[line])
    /\ Len(SourceOf[line]) - cursor <= MaxBack
    /\ cursor' = cursor + 1
    /\ out' = NoOut
    /\ calls' = <<>>
    /\ UNCHANGED <<line, catalog>>
    /\ UNCHANGED shell

Home ==
    /\ Alive
    /\ cursor > 0
    /\ cursor' = 0
    /\ out' = NoOut
    /\ calls' = <<>>
    /\ UNCHANGED <<line, catalog>>
    /\ UNCHANGED shell

End ==
    /\ Alive
    /\ cursor < Len(SourceOf[line])
    /\ cursor' = Len(SourceOf[line])
    /\ out' = NoOut
    /\ calls' = <<>>
    /\ UNCHANGED <<line, catalog>>
    /\ UNCHANGED shell

\* App::execute_silent_query on a CREATE TABLE statement
CreateTable ==
    /\ Alive
    /\ Cardinality(catalog) < MaxTables
    /\ \E t \in TableNames \ catalog : catalog' = catalog \cup {t}
    /\ out' = NoOut
    /\ calls' = <<>>
    /\ UNCHANGED <<line, cursor>>
    /\ UNCHANGED shell

\* App::execute_silent_query on a DROP TABLE statement
DropTable ==
    /\ Alive
    /\ \E t \in catalog : catalog' = catalog \ {t}
    /\ out' = NoOut
    /\ calls' = <<>>
    /\ UNCHANGED <<line, cursor>>
    /\ UNCHANGED shell

\* a completion request served by Completions::get_completions; a catalog
\* query that fails does so when it is prepared or when it is run
CallGetCompletions ==
    /\ Alive
    /\ \E outcome \in
          { LET db == IF parse_ok THEN prepare_all(catalog, FragmentsOf[line], 1)
                      ELSE catalog
                db_ok     == schema_query = "ok"
                cached_ok == schema_query # "prepare failed"
            IN  [out   |-> get_completions_from(SourceOf[line], TreeOf[line],
                                                RelevantNodeOf[line][cursor],
                                                parse_ok, db_ok, db, cte_names, alias_names),
                 db    |-> db,
                 calls |-> get_completions_calls(TreeOf[line], RelevantNodeOf[line][cursor],
                                                 parse_ok, cached_ok, TrialCallsOf[line])] :
              parse_ok \in BOOLEAN,
              schema_query \in {"ok", "prepare failed", "run failed"},
              cte_names \in KeyOrdersOf[line].ctes,
              alias_names \in KeyOrdersOf[line].table_aliases } :
          /\ out' = outcome.out
          /\ catalog' = outcome.db
          /\ calls' = outcome.calls
    /\ UNCHANGED <<line, cursor>>
    /\ UNCHANGED shell

\* a completion request served by input.rs's completions
CallCompletions ==
    /\ Alive
    /\ \E parse_ok \in BOOLEAN, overflow_checks \in BOOLEAN :
          out' = CompletionsOf[line][cursor][parse_ok][overflow_checks]
    /\ calls' = <<>>
    /\ UNCHANGED <<line, cursor, catalog>>
    /\ UNCHANGED shell

\* a hint request served by EditorHelper's Hinter
CallHint ==
    /\ Alive
    /\ \E parse_ok \in BOOLEAN, overflow_checks \in BOOLEAN :
          out' = HintOf[line][cursor][parse_ok][overflow_checks]
    /\ calls' = <<>>
    /\ UNCHANGED <<line, cursor, catalog>>
    /\ UNCHANGED shell

\* ParsedSql::statements on the tree of the line, as App::execute calls it;
\* each node is reported by its start byte and the text it covers
CallStatements ==
    /\ Alive
    /\ LET T     == TreeOf[line]
           nodes == statements(T)
       IN  out' = Returned("statements",
                           [i \in 1..Len(nodes) |->
                               <<T[nodes[i]].start, node_text(SourceOf[line], T, nodes[i])>>],
                           0)
    /\ calls' = <<>>
    /\ UNCHANGED <<line, cursor, catalog>>
    /\ UNCHANGED shell

Next ==
    \/ Edit
    \/ MoveLeft
    \/ MoveRight
    \/ Home
    \/ End
    \/ CreateTable
    \/ DropTable
    \/ CallGetCompletions
    \/ CallCompletions
    \/ CallHint
    \/ CallStatements

Spec == Init /\ [][Next]_vars

(***************************************************************************)
(* main.rs: the shell.  App::run reads lines and hands each to              *)
(* App::execute, which runs the statements of the line on the database.    *)
(* A database is a function from the names of its tables to their rows;    *)
(* the statements are about one table, u, with one column that is its       *)
(* primary key.  No request turns command echo on (App.echo starts false). *)
(***************************************************************************)
\* lines read in one session of the shell
MaxLines == 2

Sql(text, kind, verb, params) ==
    [text |-> text, kind |-> kind, verb |-> verb, params |-> params]

\* the statements typed: the text, the kind of the node under its sql_stmt
\* node, and what SQLite compiles the text to: a verb and a number of bind
\* parameters
\* CREATE TABLE u(x PRIMARY KEY)
CreateU ==
    Sql(<<67, 82, 69, 65, 84, 69, 32, 84, 65, 66, 76, 69, 32, 117, 40, 120, 32, 80, 82, 73,
          77, 65, 82, 89, 32, 75, 69, 89, 41>>, "create_table_stmt", "create", 0)

\* CREATE TABLE u AS SELECT ?
CreateAsP ==
    Sql(<<67, 82, 69, 65, 84, 69, 32, 84, 65, 66, 76, 69, 32, 117, 32, 65, 83, 32, 83, 69,
          76, 69, 67, 84, 32, 63>>, "create_table_stmt", "create", 1)

\* DROP TABLE u
DropU ==
    Sql(<<68, 82, 79, 80, 32, 84, 65, 66, 76, 69, 32, 117>>, "drop_table_stmt", "drop", 0)

\* INSERT INTO u VALUES (1)
Ins ==
    Sql(<<73, 78, 83, 69, 82, 84, 32, 73, 78, 84, 79, 32, 117, 32, 86, 65, 76, 85, 69, 83,
          32, 40, 49, 41>>, "insert_stmt", "insert", 0)

\* INSERT INTO u VALUES (?)
InsP ==
    Sql(<<73, 78, 83, 69, 82, 84, 32, 73, 78, 84, 79, 32, 117, 32, 86, 65, 76, 85, 69, 83,
          32, 40, 63, 41>>, "insert_stmt", "insert", 1)

\* SELECT * FROM u
Sel ==
    Sql(<<83, 69, 76, 69, 67, 84, 32, 42, 32, 70, 82, 79, 77, 32, 117>>,
        "select_stmt", "select", 0)

\* SELECT ?
SelP == Sql(<<83, 69, 76, 69, 67, 84, 32, 63>>, "select_stmt", "value", 1)

\* SEL: no statement of the grammar, and a syntax error to SQLite
Garbage == Sql(<<83, 69, 76>>, "ERROR", "none", 0)

SqlStmts == {CreateU, CreateAsP, DropU, Ins, InsP, Sel, SelP}

\* a line: a dot command, or statements with ';' between them
DotLine == [dot |-> TRUE, stmts |-> <<>>]

SqlLine(stmts) == [dot |-> FALSE, stmts |-> stmts]

\* the lines typed: the empty line, .tables, each statement alone, SEL alone,
\* each statement between a CREATE TABLE and an INSERT, a statement that is
\* rejected after a DROP TABLE, a DROP TABLE after two INSERTs of the same
\* row, and SEL after an INSERT
Requests ==
    { DotLine, SqlLine(<<>>), SqlLine(<<Garbage>>), SqlLine(<<Ins, Garbage>>),
      SqlLine(<<DropU, CreateAsP, CreateU>>), SqlLine(<<Ins, Ins, DropU>>) }
    \cup { SqlLine(<<s>>) : s \in SqlStmts }
    \cup { SqlLine(<<CreateU, s, Ins>>) : s \in SqlStmts }

RECURSIVE Joined(_)
Joined(stmts) ==
    IF stmts = <<>> THEN <<>>
    ELSE IF Len(stmts) = 1 THEN stmts[1].text
    ELSE stmts[1].text \o <<59>> \o Joined(Tail(stmts))

\* the text of a line (.tables for the dot command)
RequestText(req) ==
    IF req.dot THEN <<46, 116, 97, 98, 108, 101, 115>> ELSE Joined(req.stmts)

\* the statements from byte `at` on added to the sql_stmt_list that is node 1
\* of `acc`: (sql_stmt (create_table_stmt ...)) ";" ... , ERROR for SEL
RECURSIVE AddStmts(_, _, _)
AddStmts(acc, stmts, at) ==
    IF stmts = <<>> THEN acc
    ELSE LET s   == stmts[1]
             e   == at + Len(s.text)
             sub == IF s.kind = "ERROR" THEN <<Node("ERROR", at, e, 1)>>
                    ELSE << Node("sql_stmt", at, e, 1), Node(s.kind, at, e, Len(acc) + 1) >>
             sep == IF Len(stmts) > 1 THEN <<Node(";", e, e + 1, 1)>> ELSE <<>>
         IN  AddStmts(acc \o sub \o sep, Tail(stmts), e + 1)

\* the tree parse_sql returns for a line of statements
RequestTree(req) ==
    AddStmts(<<Node("sql_stmt_list", 0, Len(RequestText(req)), 0)>>, req.stmts, 0)

RequestTextOf == Tabulated([req \in Requests |-> RequestText(req)])

RequestTreeOf == Tabulated([req \in Requests |-> RequestTree(req)])

\* stmt_node.child(0).map(|node| node.kind())  ("none": None)
child0_kind(T, n) ==
    IF Children(T, n) = {} THEN "none" ELSE T[Min(Children(T, n))].kind

(***************************************************************************)
(* rusqlite: what the database makes of a statement text.                  *)
(***************************************************************************)
\* the table the statements are about
TableU == <<117>>

\* what SQLite compiles the text to (verb "none": a syntax error)
Compiled(sql) ==
    IF \E s \in SqlStmts : s.text = sql
    THEN CHOOSE s \in SqlStmts : s.text = sql
    ELSE Sql(sql, "ERROR", "none", 0)

\* the error of Connection::prepare ("none": Ok); prepare compiles the
\* statement against the schema and does not run it
prepare_error(db, sql) ==
    LET c == Compiled(sql)
    IN  IF c.verb = "none" THEN "syntax error"
        ELSE IF c.verb = "create" /\ TableU \in DOMAIN db THEN "table u already exists"
        ELSE IF c.verb \in {"drop", "insert", "select"} /\ TableU \notin DOMAIN db
        THEN "no such table: u"
        ELSE "none"

\* a parameter_count that reports no parameter
parameter_count_none(sql) == 0

\* Statement::parameter_count
parameter_count(sql) == Compiled(sql).params

\* Statement::execute([]) / Statement::query([]) read to the end: the error
\* ("none": Ok) and the database afterwards.  An unbound parameter is NULL,
\* written 0 here.
step(db, sql) ==
    LET c == Compiled(sql)
        v == IF c.params > 0 THEN 0 ELSE 1
    IN  IF c.verb = "create"
        THEN [error |-> "none", db |-> Insert(db, TableU, IF c.params > 0 THEN {0} ELSE {})]
        ELSE IF c.verb = "drop"
        THEN [error |-> "none", db |-> [t \in DOMAIN db \ {TableU} |-> db[t]]]
        ELSE IF c.verb = "insert"
        THEN (IF v = 1 /\ v \in db[TableU]
              THEN [error |-> "UNIQUE constraint failed: u.x", db |-> db]
              ELSE [error |-> "none", db |-> [db EXCEPT ![TableU] = @ \cup {v}]])
        ELSE [error |-> "none", db |-> db]

(***************************************************************************)
(* main.rs: App::execute and the three ways it runs a statement.           *)
(***************************************************************************)
\* what running one statement gave: the error returned ("none": Ok(())), the
\* database afterwards, and whether the statement was run
Outcome(error, db, stepped) == [error |-> error, db |-> db, stepped |-> stepped]

BindError == "cannot run queries that require bind parameters"

\* println! panics when standard output cannot be written; the panic ends
\* the process
PrintPanic == "panic: failed printing to stdout"

\* fn execute_update_query(&mut self, sql); stdout_ok: standard output can be
\* written, so println!("{} changes", changes) returns
execute_update_query(db, sql, stdout_ok) ==
    IF prepare_error(db, sql) # "none" THEN Outcome(prepare_error(db, sql), db, FALSE)
    ELSE IF parameter_count(sql) > 0 THEN Outcome(BindError, db, FALSE)
    ELSE LET done == step(db, sql)
         IN  IF done.error # "none" THEN Outcome(done.error, done.db, TRUE)
             ELSE IF ~stdout_ok THEN Outcome(PrintPanic, done.db, TRUE)
             ELSE Outcome("none", done.db, TRUE)

\* fn execute_silent_query(&mut self, sql)
execute_silent_query(db, sql) ==
    IF prepare_error(db, sql) # "none" THEN Outcome(prepare_error(db, sql), db, FALSE)
    ELSE IF parameter_count(sql) > 0 THEN Outcome(BindError, db, FALSE)
    ELSE LET done == step(db, sql) IN Outcome(done.error, done.db, TRUE)

\* fn execute_select_query(&mut self, sql); output_ok: the rows were written
execute_select_query(db, sql, output_ok) ==
    IF prepare_error(db, sql) # "none" THEN Outcome(prepare_error(db, sql), db, FALSE)
    ELSE IF parameter_count(sql) > 0 THEN Outcome(BindError, db, FALSE)
    ELSE LET done == step(db, sql)
         IN  IF done.error # "none" THEN Outcome(done.error, done.db, TRUE)
             ELSE IF ~output_ok THEN Outcome("output error", done.db, TRUE)
             ELSE Outcome("none", done.db, TRUE)

UpdateKinds == {"update_stmt", "delete_stmt", "insert_stmt"}

SilentKinds ==
    {"create_index_stmt", "create_table_stmt", "create_trigger_stmt", "create_view_stmt",
     "create_virtual_table_stmt", "drop_index_stmt", "drop_table_stmt",
     "drop_trigger_stmt", "drop_view_stmt"}

\* the body of the loop of App::execute for statement node n
execute_statement(db, src, T, n, output_ok, stdout_ok) ==
    LET sql  == node_text(src, T, n)
        kind == child0_kind(T, n)
    IN  IF kind \in UpdateKinds THEN execute_update_query(db, sql, stdout_ok)
        ELSE IF kind \in SilentKinds THEN execute_silent_query(db, sql)
        ELSE execute_select_query(db, sql, output_ok)

\* where App::run goes on after App::execute returned (error "none": Ok):
\* an error is printed with println!, which panics when standard output
\* cannot be written (stdout_ok: it can); else the next line is read
after_execute(error, stdout_ok) ==
    IF error = "none" \/ stdout_ok THEN "readline" ELSE "panic"

\* where App::run goes on after rl.readline returned an Err: Interrupted
\* continues, Eof breaks, any other error is printed with println! before the
\* break
after_read_error(err, stdout_ok) ==
    IF err = "interrupted" THEN "readline"
    ELSE IF err = "eof" \/ stdout_ok THEN "exit"
    ELSE "panic"

\* tree.statements() of each line
StatementsOf == Tabulated([req \in Requests |-> statements(RequestTreeOf[req])])

\* rl.readline returned Ok(line): the line goes to the history and App::execute
\* starts on it: a dot command is run at once, a line of SQL is parsed (parse_ok:
\* parse_sql returned Ok) and its statements become the ones to run
ReadLine ==
    /\ pc = "readline"
    /\ Len(history) < MaxLines
    /\ \E req \in Requests, ok \in BOOLEAN, stdout_ok \in BOOLEAN :
          /\ readline' = "line"
          /\ history' = Append(history, RequestTextOf[req])
          /\ request' = req
          /\ ran' = <<>>
          /\ conn_before' = conn
          /\ IF req.dot
             THEN /\ todo' = <<>>
                  /\ result' = IF ok THEN "ok" ELSE "dot command error"
                  /\ pc' = after_execute(IF ok THEN "none" ELSE "dot command error",
                                          stdout_ok)
             ELSE IF ~ok
             THEN /\ todo' = <<>>
                  /\ result' = "parse error"
                  /\ pc' = after_execute("parse error", stdout_ok)
             ELSE /\ todo' = StatementsOf[req]
                  /\ result' = IF StatementsOf[req] = <<>> THEN "ok" ELSE "running"
                  /\ pc' = IF StatementsOf[req] = <<>> THEN after_execute("none", stdout_ok)
                            ELSE "execute"
    /\ UNCHANGED conn
    /\ UNCHANGED completion

\* one turn of the loop of App::execute: the next statement is run; a panic
\* while it runs ends the process; an error is returned to App::run, which
\* prints it and reads the next line
ExecuteStatement ==
    /\ pc = "execute"
    /\ todo # <<>>
    /\ \E output_ok \in BOOLEAN, stdout_ok \in BOOLEAN :
          LET sql  == node_text(RequestTextOf[request], RequestTreeOf[request], Head(todo))
              done == execute_statement(conn, RequestTextOf[request], RequestTreeOf[request],
                                        Head(todo), output_ok, stdout_ok)
          IN  /\ conn' = done.db
              /\ ran' = IF done.stepped THEN Append(ran, sql) ELSE ran
              /\ IF done.error = PrintPanic
                 THEN /\ result' = done.error
                      /\ todo' = <<>>
                      /\ pc' = "panic"
                 ELSE IF done.error # "none"
                 THEN /\ result' = done.error
                      /\ todo' = <<>>
                      /\ pc' = after_execute(done.error, stdout_ok)
                 ELSE /\ todo' = Tail(todo)
                      /\ result' = IF Tail(todo) = <<>> THEN "ok" ELSE "running"
                      /\ pc' = IF Tail(todo) = <<>> THEN after_execute("none", stdout_ok)
                                ELSE "execute"
    /\ UNCHANGED <<history, readline, request, conn_before>>
    /\ UNCHANGED completion

\* rl.readline returned Err(ReadlineError::Interrupted): continue
Interrupted ==
    /\ pc = "readline"
    /\ readline' = "interrupted"
    /\ pc' = after_read_error("interrupted", TRUE)
    /\ UNCHANGED <<history, request, todo, ran, conn_before, conn, result>>
    /\ UNCHANGED completion

\* rl.readline returned Err(ReadlineError::Eof): break
Eof ==
    /\ pc = "readline"
    /\ readline' = "eof"
    /\ pc' = after_read_error("eof", TRUE)
    /\ UNCHANGED <<history, request, todo, ran, conn_before, conn, result>>
    /\ UNCHANGED completion

\* rl.readline returned another Err(err): the error is printed; break
ReadError ==
    /\ pc = "readline"
    /\ readline' = "error"
    /\ \E stdout_ok \in BOOLEAN : pc' = after_read_error("error", stdout_ok)
    /\ UNCHANGED <<history, request, todo, ran, conn_before, conn, result>>
    /\ UNCHANGED completion

\* the shell with nothing typed into the editor yet
ShellInit ==
    /\ line = [first |-> FALSE, last |-> ErrStmt(<<>>), pad |-> 0]
    /\ cursor = 0
    /\ catalog = {}
    /\ out = NoOut
    /\ calls = <<>>
    /\ AppStarted

ShellNext ==
    \/ ReadLine
    \/ ExecuteStatement
    \/ Interrupted
    \/ Eof
    \/ ReadError

ShellSpec == ShellInit /\ [][ShellNext]_vars

(***************************************************************************)
(* What the properties below speak of.                                     *)
(***************************************************************************)
Src == SourceOf[line]

Tr == TreeOf[line]

\* the last request was served by Completions::get_completions and returned
Answered == out.fn = "get_completions" /\ out.status = "ok"

\* the replacement texts returned, in order
Texts == [i \in 1..Len(out.list) |-> out.list[i][2]]

\* the text of the context node of the last request
TypedText == SubSeq(Src, Tr[out.node].start + 1, Tr[out.node].end)

Fold(b) == IF b \in 65..90 THEN b + 32 ELSE b

\* c starts with t, ASCII letters compared without case
CIPrefix(t, c) == Len(t) <= Len(c) /\ \A i \in 1..Len(t) : Fold(t[i]) = Fold(c[i])

Range(q) == { q[i] : i \in 1..Len(q) }

\* the context node has a parent of kind `under` and no sibling before it
FirstChildOf(kind, under) ==
    /\ out.node # 0
    /\ Tr[out.node].kind = kind
    /\ Tr[out.node].parent # 0
    /\ Tr[Tr[out.node].parent].kind = under
    /\ ~\E j \in 1..(out.node - 1) : Tr[j].parent = Tr[out.node].parent

AtStatementStart == FirstChildOf("ERROR", "sql_stmt_list")

AtTablePosition == FirstChildOf("identifier", "table_or_subquery")

\* the CTE and alias names each statement of the line defines
NamesOfStmt(s) == Range(s.ctes) \cup (IF s.alias = <<>> THEN {} ELSE {s.alias})

FirstNames == IF line.first THEN NamesOfStmt(FirstStmt) ELSE {}

LastNames == NamesOfStmt(line.last)

(***************************************************************************)
(* C1..C10.                                                                *)
(***************************************************************************)
\* C1: every candidate get_completions returns starts, ASCII letters compared
\* without case, with the text of the context node, and the item it was made
\* from (the candidate without its trailing space) is at least as long as that
\* text: a longer typed text matches no item.
C1_CandidatesStartWithTyped ==
    Answered =>
        \A i \in 1..Len(out.list) :
            /\ Len(Texts[i]) >= Len(TypedText) + 1
            /\ \A j \in 1..Len(TypedText) : Fold(Texts[i][j]) = Fold(TypedText[j])

\* a candidate was returned that differs from the typed text in letter case
C1_Witness ==
    /\ Answered
    /\ \E i \in 1..Len(out.list) : \E j \in 1..Len(TypedText) : Texts[i][j] # TypedText[j]

\* C2: two get_completions requests in a row on the same line, cursor and
\* database return the same candidates in the same order.
C2_SameRequestSameList ==
    [][(/\ Answered
        /\ out'.fn = "get_completions" /\ out'.status = "ok"
        /\ UNCHANGED <<line, cursor, catalog>>) => out'.list = out.list]_vars

\* C3: with the cursor at a table position of the second statement, no CTE or
\* alias name that only the first statement defines is offered.
C3_NoNamesOfFirstStatement ==
    (/\ Answered
     /\ line.first
     /\ AtTablePosition
     /\ Tr[out.node].start > Len(StmtText(FirstStmt)))
        => \A i \in 1..Len(out.list) :
              Texts[i] \notin { n \o <<32>> : n \in FirstNames \ (LastNames \cup catalog) }

\* C4: a get_completions request whose parse fails returns an empty list.
C4_ParseFailureReturnsEmpty ==
    (out.fn = "get_completions" /\ out.failure = "parse")
        => (out.status = "ok" /\ out.list = <<>>)

\* C5: a get_completions request that cannot read the table list returns an
\* empty list.
C5_CatalogFailureReturnsEmpty ==
    (out.fn = "get_completions" /\ out.failure = "catalog")
        => (out.status = "ok" /\ out.list = <<>>)

\* the keywords the typed text is a prefix of, in the order of the list, lower
\* case when all of the typed text is, each with a trailing space
KeywordsFor(t) ==
    LET pass == SelectSeq(INITIAL_KEYWORDS, LAMBDA k : CIPrefix(t, k))
        lower == \A j \in 1..Len(t) : t[j] \in 97..122
    IN  [i \in 1..Len(pass) |->
            (IF lower THEN [j \in 1..Len(pass[i]) |-> Fold(pass[i][j])] ELSE pass[i])
                \o <<32>>]

\* C6: for an ERROR node that is the first child of the statement list,
\* get_completions returns exactly the keywords of INITIAL_KEYWORDS that the
\* node's text is a prefix of, in list order, each with one trailing space,
\* in lower case when every typed character is lower case and as listed
\* otherwise.
C6_KeywordCandidates ==
    (Answered /\ AtStatementStart) => Texts = KeywordsFor(TypedText)

\* several keywords were returned, in lower case
C6_Witness ==
    /\ Answered
    /\ AtStatementStart
    /\ Len(out.list) >= 2
    /\ \A j \in 1..Len(TypedText) : TypedText[j] \in 97..122

\* C7: for an identifier that is the first child of a table reference,
\* get_completions returns exactly the names among the tables of the database,
\* the CTE names and the alias names of the line that the node's text is a
\* prefix of, each unchanged and followed by one space.  (The CTE and alias
\* names are those of every statement of the line: see C3.)
C7_TableCandidates ==
    (Answered /\ AtTablePosition)
        => Range(Texts) = { n \o <<32>> :
                              n \in { m \in catalog \cup FirstNames \cup LastNames :
                                        CIPrefix(TypedText, m) } }

\* a table, a CTE name and an alias were all offered
C7_Witness ==
    /\ Answered
    /\ AtTablePosition
    /\ \E t \in catalog : (t \o <<32>>) \in Range(Texts) /\ t \notin LastNames
    /\ \E c \in Range(line.last.ctes) :
          (c \o <<32>>) \in Range(Texts) /\ c \notin catalog /\ c # line.last.alias
    /\ line.last.alias # <<>>
    /\ (line.last.alias \o <<32>>) \in Range(Texts)
    /\ line.last.alias \notin catalog \cup Range(line.last.ctes)

\* C8: get_completions never returns the same replacement text twice.
C8_NoDuplicateCandidates ==
    Answered => \A i, j \in 1..Len(out.list) : i # j => Texts[i] # Texts[j]

\* node n covers byte position p
Covers(n, p) == Tr[n].start <= p /\ p < Tr[n].end

\* n is a smallest node, other than the statement list, at the nearest of the
\* positions cursor, cursor - 1, ..., cursor - 4 (none below 1 byte from the
\* start) that such a node covers
IsContextNode(n) ==
    \E k \in 0..4 :
        /\ k < cursor
        /\ n # 1 /\ Covers(n, cursor - k)
        /\ \A m \in 2..Len(Tr) :
              Covers(m, cursor - k) => Tr[m].end - Tr[m].start >= Tr[n].end - Tr[n].start
        /\ \A nearer \in 0..(k - 1) : ~\E m \in 2..Len(Tr) : Covers(m, cursor - nearer)

\* C9: every candidate get_completions returns has replace_from equal to the
\* start of the context node, which is at or before the cursor.
C9_ReplaceFromIsNodeStart ==
    (Answered /\ out.list # <<>>)
        => \E n \in 2..Len(Tr) :
              /\ IsContextNode(n)
              /\ \A i \in 1..Len(out.list) :
                    out.list[i][1] = Tr[n].start /\ out.list[i][1] <= cursor

\* candidates were returned for a node that ends left of the cursor
C9_Witness ==
    /\ Answered
    /\ out.list # <<>>
    /\ cursor > Tr[out.node].end

\* C10: a request with the cursor at offset 0 returns no candidates and does
\* not fail (a parse failure aside: see C4).
C10_CursorZeroReturnsNothing ==
    (cursor = 0 /\ out.fn \in {"get_completions", "completions"} /\ out.failure # "parse")
        => (out.status = "ok" /\ out.list = <<>>)

\* C10 for Completions::get_completions alone
C10_GetCompletionsAtZero ==
    (cursor = 0 /\ out.fn = "get_completions" /\ out.failure # "parse")
        => (out.status = "ok" /\ out.list = <<>>)

(***************************************************************************)
(* C11..C20.                                                               *)
(***************************************************************************)
\* C11: a completion request whose context node is neither an ERROR that is the
\* first child of the statement list nor an identifier that is the first child
\* of a table reference returns an empty list and does not fail; so does every
\* request whose context node has a previous sibling.
C11_OtherNodesReturnNothing ==
    (/\ out.fn \in {"get_completions", "completions"}
     /\ out.node # 0
     /\ ~AtStatementStart
     /\ ~AtTablePosition)
        => (out.status = "ok" /\ out.list = <<>>)

\* the context node was an alias: an identifier of a table reference with the
\* table's identifier before it, whose text is a key of the alias map
C11_Witness ==
    /\ Answered
    /\ out.node # 0
    /\ Tr[out.node].kind = "identifier"
    /\ Tr[Tr[out.node].parent].kind = "table_or_subquery"
    /\ \E j \in 1..(out.node - 1) : Tr[j].parent = Tr[out.node].parent
    /\ TypedText \in DOMAIN NamesOf[line].table_aliases
    /\ out.list = <<>>

\* the last request ran parse_names (get_completions got past parse_sql)
Resolved == out.fn = "get_completions" /\ out.failure # "parse"

\* the matches of pattern 0 on the line, and the fragments prepared for them
CteMatchesOfLine == CteMatches(Tr)

Planned == FragmentsOf[line]

\* the text of the CTE definition of match k: name AS (body)
DefinitionText(k) == node_text(Src, Tr, parent(Tr, CteMatchesOfLine[k].name))

\* part occurs in whole as a contiguous run of bytes
Contains(whole, part) ==
    \E i \in 0..(Len(whole) - Len(part)) : SubSeq(whole, i + 1, i + Len(part)) = part

\* C12: the fragment prepared for the k-th CTE holds the definitions of the
\* CTEs before it and the body of the k-th, and neither the text of the k-th
\* definition nor of a later one.
C12_FragmentHasOnlyEarlierCtes ==
    Resolved =>
        \A k \in 1..Len(Planned) :
            /\ \A j \in 1..(k - 1) : Contains(Planned[k], DefinitionText(j))
            /\ \A j \in k..Len(Planned) : ~Contains(Planned[k], DefinitionText(j))

\* C13: every fragment prepared for a CTE (all bodies here are the valid
\* SELECT 1) is accepted by the planner, so every CTE gets its column names.
C13_EveryFragmentPlans ==
    Resolved =>
        \A k \in 1..Len(Planned) :
            /\ prepare_column_names(Planned[k]) # <<>>
            /\ NamesOf[line].ctes[node_text(Src, Tr, CteMatchesOfLine[k].name)] # <<>>

\* the alias map the aliases of the two statements give
AliasMapOfLine ==
    LET stmts == (IF line.first THEN {FirstStmt} ELSE {}) \cup {line.last}
        with  == { s \in stmts : s.form = "select" /\ s.alias # <<>> }
    IN  [a \in { s.alias : s \in with } |-> (CHOOSE s \in with : s.alias = a).table]

\* C14: parse_names records every CTE under its name, with the column names
\* of its fragment, or with no column names when the fragment could not be
\* prepared; the aliases are recorded all the same and the request does not
\* fail in parse_names.
C14_FailedPlanRecordsEmptyList ==
    Resolved =>
        /\ \A k \in 1..Len(Planned) :
              LET name == node_text(Src, Tr, CteMatchesOfLine[k].name)
              IN  /\ name \in DOMAIN NamesOf[line].ctes
                  /\ NamesOf[line].ctes[name] = prepare_column_names(Planned[k])
        /\ NamesOf[line].table_aliases = AliasMapOfLine
        /\ out.failure \in {"none", "catalog", "slice"}

\* a fragment could not be prepared; its CTE and an alias that follows it in
\* the line were offered all the same
C14_Witness ==
    /\ Answered
    /\ AtTablePosition
    /\ \E k \in 1..Len(Planned) :
          LET name == node_text(Src, Tr, CteMatchesOfLine[k].name)
          IN  /\ prepare_column_names(Planned[k]) = <<>>
              /\ NamesOf[line].ctes[name] = <<>>
              /\ (name \o <<32>>) \in Range(Texts)
    /\ line.last.alias # <<>>
    /\ (line.last.alias \o <<32>>) \in Range(Texts)

IsPrepare(c) == c.method = "prepare"

\* the statements the calls of the last request prepared with prepare
PreparedBy(cs) ==
    LET ps == SelectSeq(cs, IsPrepare) IN [i \in 1..Len(ps) |-> ps[i].sql]

\* the statements the calls of the last request ran
RunBy(cs) == { cs[i].sql : i \in { j \in 1..Len(cs) : cs[j].method \in StepMethods } }

\* C15: no call of a completion request changes the database.  Every trial
\* fragment of parse_names is prepared, and none is run: the only statement a
\* request runs is the SELECT on sqlite_schema of get_table_names, so the
\* rows of the tables are not written; and the tables of the database are
\* the same after the request as before it.
C15_RequestsLeaveDatabaseUnchanged ==
    [][out'.fn \in {"get_completions", "completions"}
         => /\ catalog' = catalog
            /\ RunBy(calls') \subseteq {SchemaQuery}
            /\ \A k \in 1..Len(FragmentsOf[line']) :
                  FragmentsOf[line'][k] \notin RunBy(calls')
            /\ (out'.fn = "get_completions" /\ out'.failure # "parse")
                  => PreparedBy(calls') = FragmentsOf[line']]_vars

\* a request at a table position prepared the fragments of two CTEs, read
\* the column names of one, and ran the query on sqlite_schema, on a database
\* with tables
C15_Witness ==
    /\ Resolved
    /\ Len(Planned) >= 2
    /\ catalog # {}
    /\ PreparedBy(calls) = Planned
    /\ \E i \in 1..Len(calls) : calls[i].method = "column_names"
    /\ RunBy(calls) = {SchemaQuery}

\* C16: the tables a table-position request offers are those the database has
\* at the time of the request, after every CREATE TABLE and DROP TABLE run so
\* far: a table that is no CTE or alias name of the line is offered exactly
\* when it exists now and the typed text is a prefix of its name.
C16_TablesReadOnEveryRequest ==
    (Answered /\ AtTablePosition)
        => \A t \in TableNames \ (FirstNames \cup LastNames) :
              ((t \o <<32>>) \in Range(Texts)) <=> (t \in catalog /\ CIPrefix(TypedText, t))

\* a created table was offered while another table with the typed prefix,
\* which does not exist (never created, or dropped), was not
C16_Witness ==
    /\ Answered
    /\ AtTablePosition
    /\ \E t \in catalog \ (FirstNames \cup LastNames) : (t \o <<32>>) \in Range(Texts)
    /\ \E t \in TableNames \ (catalog \cup FirstNames \cup LastNames) :
          CIPrefix(TypedText, t) /\ (t \o <<32>>) \notin Range(Texts)

\* the statements typed on the line, each with the byte it starts at
TypedStatements ==
    (IF line.first THEN << <<0, StmtText(FirstStmt)>> >> ELSE <<>>)
        \o (IF StmtText(line.last) = <<>> THEN <<>>
            ELSE << <<IF line.first THEN Len(StmtText(FirstStmt)) + 1 ELSE 0,
                      StmtText(line.last)>> >>)

\* C17: statements returns one node for every statement typed on the line, in
\* source order, covering that statement's text without the ';', also for a
\* statement that did not parse.
C17_StatementsListsEveryStatement ==
    out.fn = "statements" => out.list = TypedStatements

\* C17 for the lines whose last statement parsed
C17_ParsedStatementsListed ==
    (out.fn = "statements" /\ line.last.form = "select") => out.list = TypedStatements

\* what complete returns for the line and the cursor
Completed == CompletionsOf[line][cursor][TRUE][FALSE]

\* C18: a hint request that returns gives None when complete has no candidates
\* for the line and the cursor, and otherwise the replacement text of the
\* first candidate without its first cursor - replace_from bytes.
C18_HintIsRestOfFirstCandidate ==
    (out.fn = "hint" /\ out.status = "ok")
        => IF Completed.list = <<>> THEN out.list = <<>>
           ELSE LET text  == Completed.list[1][2]
                    typed == cursor - Completed.list[1][1]
                IN  /\ Len(out.list) = 1
                    /\ out.list[1][2] = [i \in 1..(Len(text) - typed) |-> text[i + typed]]

\* a hint was returned that is a proper, non-empty part of the candidate
C18_Witness ==
    /\ out.fn = "hint"
    /\ out.status = "ok"
    /\ out.list # <<>>
    /\ out.list[1][2] # <<>>
    /\ Len(out.list[1][2]) < Len(Completed.list[1][2])

\* the examined positions of C19 give no context node
NoContextNode ==
    \A k \in 0..4 : k < cursor => ~\E m \in 2..Len(Tr) : Covers(m, cursor - k)

\* C19: the context node of a completion request is the smallest node, other
\* than the statement list, at the first of the positions cursor, cursor - 1,
\* ..., cursor - (min(5, cursor) - 1) that has one; no position below 0 is
\* looked at, and there is no context node when none of these positions has
\* such a node.
C19_ContextNodeWithinLookbehind ==
    (out.fn \in {"get_completions", "completions"} /\ out.failure # "parse")
        => /\ out.failure # "overflow"
           /\ IF out.node = 0 THEN NoContextNode ELSE IsContextNode(out.node)

\* C19 for Completions::get_completions alone
C19_GetCompletionsLookbehind ==
    Resolved => IF out.node = 0 THEN NoContextNode ELSE IsContextNode(out.node)

\* the table references of a tree that are a table identifier followed by an
\* alias identifier and nothing else, as <<table, alias>>
AliasedRefs(T) ==
    LET refs == { n \in 1..Len(T) :
                    /\ T[n].kind = "table_or_subquery"
                    /\ Cardinality(Children(T, n)) = 2
                    /\ \A c \in Children(T, n) : T[c].kind = "identifier" }
    IN  { <<Min(Children(T, n)), Max(Children(T, n))>> : n \in refs }

AliasedRefsOf == Tabulated([l \in Lines |-> AliasedRefs(Tree(l))])

AliasedReferences == AliasedRefsOf[line]

\* C20: the alias map of a request has an entry alias -> table for every
\* table reference that is a table identifier followed by an alias identifier,
\* and no other entry: a table reference without alias adds none.
C20_AliasMapHasExactlyAliasedRefs ==
    Resolved =>
        LET map == NamesOf[line].table_aliases
        IN  /\ \A r \in AliasedReferences :
                  /\ node_text(Src, Tr, r[2]) \in DOMAIN map
                  /\ map[node_text(Src, Tr, r[2])] = node_text(Src, Tr, r[1])
            /\ \A key \in DOMAIN map :
                  \E r \in AliasedReferences : key = node_text(Src, Tr, r[2])

\* the line has a table reference with an alias and one without: the map has
\* the alias of the first and nothing for the second
C20_Witness ==
    /\ Resolved
    /\ line.first
    /\ line.last.form = "select"
    /\ line.last.alias = <<>>
    /\ DOMAIN NamesOf[line].table_aliases = {FirstStmt.alias}
    /\ NamesOf[line].table_aliases[FirstStmt.alias] = FirstStmt.table

(***************************************************************************)
(* C24, C25: requests that end the process.                                *)
(***************************************************************************)
\* C24: when completions returns at least one candidate for the line and the
\* cursor, the split index of hint, cursor - replace_from, is at most the
\* byte length of the first replacement text, and the hint request returns.
C24_HintSplitsInsideFirstCandidate ==
    (out.fn = "hint" /\ out.failure \notin {"parse", "overflow"} /\ Completed.list # <<>>)
        => /\ cursor - Completed.list[1][1] <= Len(Completed.list[1][2])
           /\ out.status = "ok"

\* C25: no completion request fails in starts_with, whatever the table names
\* of the database and the text typed at the table position.
C25_StartsWithNeverFails ==
    out.fn = "get_completions" => out.failure # "slice"

(***************************************************************************)
(* C21..C23: the shell running the lines it reads.                         *)
(***************************************************************************)
\* the SQL statements typed in the request, in source order
TypedSql ==
    LET typed == SelectSeq(request.stmts, LAMBDA s : s.kind # "ERROR")
    IN  [i \in 1..Len(typed) |-> typed[i].text]

\* the database after the statements `sqls` were run on db one after another
RECURSIVE Applied(_, _)
Applied(db, sqls) ==
    IF sqls = <<>> THEN db ELSE Applied(step(db, sqls[1]).db, Tail(sqls))

\* what running the i-th statement of `ran` returned
RanError(i) == step(Applied(conn_before, SubSeq(ran, 1, i - 1)), ran[i]).error

\* App::execute returned an error from one of the statements of the request
StatementFailed == result \notin {"none", "ok", "running", "parse error", "dot command error"}

\* C21: the statements of a request are run one at a time in source order:
\* at every moment those run are the first ones of the request, none of them
\* but the last has failed, and the database is what running them in this
\* order on the database the request found gives; while the request is being
\* executed the ones to run are exactly the rest; it ends with Ok only when
\* all were run and none failed; and when a statement fails, it is the
\* statement after those run (or the last one run, which failed while it ran
\* or while its rows or its number of changes were written), nothing after
\* it is run and the request ends.
C21_StatementsRunInOrderUntilFailure ==
    (history # <<>> /\ ~request.dot)
        => /\ Len(ran) <= Len(TypedSql)
           /\ ran = SubSeq(TypedSql, 1, Len(ran))
           /\ conn = Applied(conn_before, ran)
           /\ \A i \in 1..(Len(ran) - 1) : RanError(i) = "none"
           /\ pc = "execute"
                 => /\ result = "running"
                    /\ Len(todo) = Len(TypedSql) - Len(ran)
                    /\ \A i \in 1..Len(todo) :
                          node_text(RequestTextOf[request], RequestTreeOf[request], todo[i])
                              = TypedSql[Len(ran) + i]
                    /\ \A i \in 1..Len(ran) : RanError(i) = "none"
           /\ result = "ok"
                 => /\ ran = TypedSql
                    /\ \A i \in 1..Len(ran) : RanError(i) = "none"
           /\ StatementFailed
                 => /\ pc # "execute"
                    /\ todo = <<>>
                    /\ \/ Len(ran) > 0 /\ result \in {RanError(Len(ran)), "output error"}
                       \/ /\ Len(ran) > 0
                          /\ result = PrintPanic
                          /\ RanError(Len(ran)) = "none"
                          /\ Compiled(ran[Len(ran)]).kind \in UpdateKinds
                          /\ pc = "panic"
                       \/ /\ Len(ran) < Len(TypedSql)
                          /\ \A i \in 1..Len(ran) : RanError(i) = "none"
                          /\ result \in {prepare_error(conn, TypedSql[Len(ran) + 1]), BindError}

\* the second of three statements failed: the first was run and what it did
\* to the database stays, the third was not run
C21_Witness ==
    /\ history # <<>>
    /\ ~request.dot
    /\ StatementFailed
    /\ Len(TypedSql) = 3
    /\ Len(ran) = 1
    /\ conn # conn_before
    /\ prepare_error(conn, TypedSql[3]) = "none"

\* App::execute returned an error for the line read last
ExecuteFailed == readline = "line" /\ result \notin {"none", "ok", "running"}

\* C22: the loop of the shell has ended (by a break or by a panic) only if
\* the last read returned end-of-input or an error other than an interrupt;
\* after an interrupt, and after a line whose execution returned an error, the
\* shell is reading the next line; and the line being executed, like every
\* line read, was added to the history before its execution began.
C22_LoopEndsOnlyOnEofOrReadError ==
    /\ pc \in {"exit", "panic"} => readline \in {"eof", "error"}
    /\ readline = "interrupted" => pc = "readline"
    /\ ExecuteFailed => pc = "readline"
    /\ readline = "line"
          => /\ history # <<>>
             /\ history[Len(history)] = RequestTextOf[request]
    /\ pc = "execute" => readline = "line"

\* the text of the statement App::execute runs next
NextSql == node_text(RequestTextOf[request], RequestTreeOf[request], todo[1])

\* the statement to run next compiles and requires bind parameters
NeedsBinding ==
    /\ pc = "execute"
    /\ todo # <<>>
    /\ prepare_error(conn, NextSql) = "none"
    /\ Compiled(NextSql).params > 0

\* C23: when the statement to run requires bind parameters, whichever of the
\* update, silent and select paths it is dispatched to, the step that handles
\* it returns "cannot run queries that require bind parameters", does not run
\* the statement and leaves the database as it was; so no statement that
\* requires bind parameters is ever among those run.
C23_BindParametersRejected ==
    /\ [](\A i \in 1..Len(ran) : Compiled(ran[i]).params = 0)
    /\ [][NeedsBinding
            => /\ result' = BindError
               /\ conn' = conn
               /\ ran' = ran
               /\ pc' # "execute"]_vars

\* CREATE TABLE u AS SELECT ?, on the silent path, was rejected after an
\* earlier statement of the request was run: the table it names was not made
C23_Witness ==
    /\ result = BindError
    /\ Len(ran) > 0
    /\ Len(ran) < Len(TypedSql)
    /\ Compiled(TypedSql[Len(ran) + 1]).verb = "create"
    /\ TableU \notin DOMAIN conn

====
